---- MODULE Spec2Model ----
(***************************************************************************)
(* Capacity-aware time-slot validation, alternative suggestion and the     *)
(* booking commit of the validate-service (src/validate-service/app.py).   *)
(*                                                                         *)
(* Strings are modelled by what the code reads from them:                  *)
(*  - provider names and service types are sequences of one-character     *)
(*    strings, so lower(), strip() and the substring test are computed;    *)
(*  - a time string is a record giving its shape (a word, H[:MM] am/pm,    *)
(*    H:MM, H:M, anything else), its digits and its decoration (upper      *)
(*    case, surrounding blanks);                                           *)
(*  - a date string is a record giving whether it is the canonical         *)
(*    YYYY-MM-DD string of a day, another string strptime accepts for that *)
(*    day, or a string strptime rejects.                                   *)
(* Days are counted from 2025-05-26 (day 0); instants are seconds since    *)
(* the midnight that starts day 0; the clock has a resolution of 1 second. *)
(***************************************************************************)
EXTENDS Integers, Sequences, FiniteSets, TLC

(***************************************************************************)
(* Bounds of the model                                                     *)
(***************************************************************************)
\* clients that call the /book-slot endpoint
NumClients == 2
\* slots of a drawn slot set (the pure-function specification)
NumTimes == 6

(***************************************************************************)
(* Program constants                                                       *)
(***************************************************************************)
MaxFutureDays == 90
MaxAlternatives == 5
FallbackHour == 12
SecondsPerMinute == 60
SecondsPerDay == 86400

(***************************************************************************)
(* Character strings: provider names and service types                     *)
(***************************************************************************)
UpperToLower ==
  [c \in {"A","B","C","D","E","F","G","H","I","J","K","L","M","N","O","P","Q","R","S","T","U","V","W","X","Y","Z"} |->
     CASE c = "A" -> "a" [] c = "B" -> "b" [] c = "C" -> "c" [] c = "D" -> "d" [] c = "E" ->
     "e" [] c = "F" -> "f" [] c = "G" -> "g" [] c = "H" -> "h" [] c = "I" -> "i" [] c = "J" ->
     "j" [] c = "K" -> "k" [] c = "L" -> "l" [] c = "M" -> "m" [] c = "N" -> "n" [] c = "O" ->
     "o" [] c = "P" -> "p" [] c = "Q" -> "q" [] c = "R" -> "r" [] c = "S" -> "s" [] c = "T" ->
     "t" [] c = "U" -> "u" [] c = "V" -> "v" [] c = "W" -> "w" [] c = "X" -> "x" [] c = "Y" ->
     "y" [] c = "Z" -> "z"]

\* str.lower()
Lower(s) == [i \in 1..Len(s) |-> IF s[i] \in DOMAIN UpperToLower THEN UpperToLower[s[i]] ELSE s[i]]

\* str.strip() == ""
IsBlank(s) == \A i \in 1..Len(s) : s[i] = " "

\* a in b, for strings
IsSubstring(a, b) ==
  \E k \in 0..(Len(b) - Len(a)) : \A i \in 1..Len(a) : b[k + i] = a[i]

\* An Optional[str]: None, or a string
NoneStr == [isNone |-> TRUE, s |-> <<>>]
Str(s) == [isNone |-> FALSE, s |-> s]

Svc_medical == <<"m","e","d","i","c","a","l">>
Svc_dental == <<"d","e","n","t","a","l">>
Svc_beauty == <<"b","e","a","u","t","y">>
Svc_automotive == <<"a","u","t","o","m","o","t","i","v","e">>
Svc_legal == <<"l","e","g","a","l">>

MOCK_PROVIDERS ==
     Svc_medical :> <<<<"D","r","."," ","S","m","i","t","h">>,
        <<"D","r","."," ","J","o","h","n","s","o","n">>,
        <<"C","i","t","y"," ","M","e","d","i","c","a","l"," ","C","e","n","t","e","r">>,
        <<"H","e","a","l","t","h"," ","C","l","i","n","i","c">>>>
  @@ Svc_dental :> <<<<"D","r","."," ","B","r","o","w","n">>,
        <<"D","e","n","t","a","l"," ","C","a","r","e"," ","C","e","n","t","e","r">>,
        <<"S","m","i","l","e"," ","C","l","i","n","i","c">>>>
  @@ Svc_beauty :> <<<<"S","t","y","l","e"," ","S","a","l","o","n">>,
        <<"B","e","a","u","t","y"," ","H","u","b">>,
        <<"H","a","i","r"," ","M","a","s","t","e","r","s">>,
        <<"J","o","h","n","'","s"," ","B","a","r","b","e","r">>>>
  @@ Svc_automotive :> <<<<"Q","u","i","c","k"," ","F","i","x"," ","G","a","r","a","g","e">>,
        <<"A","u","t","o"," ","C","a","r","e"," ","C","e","n","t","e","r">>>>
  @@ Svc_legal :> <<<<"J","o","h","n","s","o","n"," ","L","a","w"," ","F","i","r","m">>,
        <<"L","e","g","a","l"," ","A","s","s","o","c","i","a","t","e","s">>>>

(***************************************************************************)
(* Time strings                                                            *)
(*   form "none"  : None                     form "empty" : ""             *)
(*   form "blank" : blanks only                                            *)
(*   form "word"  : a word (field word)                                    *)
(*   form "ampm"  : H[:MM] am|pm, H of 1-2 digits, MM of 2 digits          *)
(*   form "hm"    : H:MM, H of 1-2 digits (padded: H written with two      *)
(*                  digits), MM of 2 digits                                *)
(*   form "short" : H:M with a one-digit minute                            *)
(*   form "junk"  : any other text                                         *)
(*   deco: "plain" (lower case, no surrounding blanks), "upper", "spaced"  *)
(***************************************************************************)
TimeStr(form, word, h, hasMin, m, period, padded, deco) ==
  [form |-> form, word |-> word, h |-> h, hasMin |-> hasMin, m |-> m,
   period |-> period, padded |-> padded, deco |-> deco]

NoneTime == TimeStr("none", "", 0, FALSE, 0, "", FALSE, "plain")
EmptyTime == TimeStr("empty", "", 0, FALSE, 0, "", FALSE, "plain")
BlankTime == TimeStr("blank", "", 0, FALSE, 0, "", FALSE, "spaced")
Word(w) == TimeStr("word", w, 0, FALSE, 0, "", FALSE, "plain")
AmPm(h, m, p) == TimeStr("ampm", "", h, TRUE, m, p, FALSE, "plain")
AmPmHour(h, p) == TimeStr("ampm", "", h, FALSE, 0, p, FALSE, "plain")
\* the string "HH:MM", as f"{h:02d}:{m:02d}" writes it
HHMM(h, m) == TimeStr("hm", "", h, TRUE, m, "", TRUE, "plain")
\* "H:MM" with a one-digit hour
HMM(h, m) == TimeStr("hm", "", h, TRUE, m, "", FALSE, "plain")
Short(h, m) == TimeStr("short", "", h, TRUE, m, "", FALSE, "plain")
Junk == TimeStr("junk", "", 0, FALSE, 0, "", FALSE, "plain")
Upper(t) == [t EXCEPT !.deco = "upper"]
Spaced(t) == [t EXCEPT !.deco = "spaced"]
UpperSpaced(t) == [t EXCEPT !.deco = "upper_spaced"]

\* time_slot.lower().strip()
LowerStrip(t) == [t EXCEPT !.deco = "plain"]

word_times ==
  [w \in {"morning", "afternoon", "evening", "noon"} |->
     CASE w = "morning" -> HHMM(9, 0)
       [] w = "afternoon" -> HHMM(14, 0)
       [] w = "evening" -> HHMM(18, 0)
       [] w = "noon" -> HHMM(12, 0)]

\* mutant: pm adds 12 to every hour and am leaves every hour
AddTwelveForPm(time_slot) ==
  LET t == LowerStrip(time_slot) IN
  IF t.form = "word" /\ t.word \in DOMAIN word_times THEN word_times[t.word]
  ELSE IF t.form = "ampm" THEN
    HHMM(IF t.period = "pm" THEN t.h + 12 ELSE t.h, IF t.hasMin THEN t.m ELSE 0)
  ELSE IF t.form = "hm" THEN HHMM(t.h, t.m)
  ELSE t

_normalize_time_slot(time_slot) ==
  LET t == LowerStrip(time_slot) IN
  IF t.form = "word" /\ t.word \in DOMAIN word_times THEN word_times[t.word]
  ELSE IF t.form = "ampm" THEN
    LET hour == IF t.period = "pm" /\ t.h # 12 THEN t.h + 12
                ELSE IF t.period = "am" /\ t.h = 12 THEN 0
                ELSE t.h
        minute == IF t.hasMin THEN t.m ELSE 0
    IN HHMM(hour, minute)
  ELSE IF t.form = "hm" THEN HHMM(t.h, t.m)
  ELSE t

(***************************************************************************)
(* Date strings and instants                                               *)
(***************************************************************************)
DateStr(form, day) == [form |-> form, day |-> day]
NoneDate == DateStr("none", 0)
EmptyDate == DateStr("empty", 0)
BlankDate == DateStr("blank", 0)
\* the string YYYY-MM-DD of a day, zero padded
Iso(day) == DateStr("iso", day)
\* another string "%Y-%m-%d" accepts for the day, e.g. 2025-5-26
Loose(day) == DateStr("loose", day)
BadDate == DateStr("bad", 0)

\* datetime.strptime(date, "%Y-%m-%d") does not raise ValueError
DateParses(date) == date.form \in {"iso", "loose"}

Instant(day, tod) == day * SecondsPerDay + tod

\* datetime.strptime(f"{date} {t}", "%Y-%m-%d %H:%M") does not raise, for a
\* date that parses
TimeParses(t) ==
  /\ t.deco = "plain"
  /\ \/ t.form = "hm" /\ t.h <= 23 /\ t.m <= 59
     \/ t.form = "short" /\ t.h <= 23 /\ t.m <= 9

\* the instant strptime returns
ParsedInstant(date, t) == Instant(date.day, (t.h * 60 + t.m) * SecondsPerMinute)

(***************************************************************************)
(* The slot table: day -> the day's slots in the order the dict enumerates *)
(* them, each [time, capacity, booked]                                     *)
(***************************************************************************)
Slot(h, m, capacity, booked) == [time |-> HHMM(h, m), capacity |-> capacity, booked |-> booked]

MOCK_TIME_SLOTS ==
     0 :> << Slot(9, 0, 3, 1), Slot(10, 0, 2, 2), Slot(11, 0, 4, 0),
             Slot(14, 0, 3, 1), Slot(15, 0, 2, 0), Slot(16, 0, 1, 0) >>
  @@ 1 :> << Slot(9, 0, 3, 2), Slot(10, 30, 2, 0), Slot(13, 0, 4, 3),
             Slot(14, 30, 3, 0), Slot(16, 0, 2, 1) >>
  @@ 2 :> << Slot(8, 0, 2, 0), Slot(9, 30, 3, 1), Slot(11, 0, 4, 4),
             Slot(15, 0, 3, 0), Slot(17, 0, 1, 0) >>

\* date in MOCK_TIME_SLOTS
HasDate(table, date) == date.form = "iso" /\ date.day \in DOMAIN table

\* MOCK_TIME_SLOTS.get(date, {})
SlotsOf(table, date) == IF HasDate(table, date) THEN table[date.day] ELSE << >>

\* time in a day's slots: the position of the slot with that key, 0 if none
IndexOf(daySlots, t) ==
  IF \E i \in 1..Len(daySlots) : daySlots[i].time = t
  THEN CHOOSE i \in 1..Len(daySlots) : daySlots[i].time = t
  ELSE 0

\* mutant: the capacity is taken for the available count
WholeCapacity(slot_info) == slot_info.capacity

Available(slot_info) == slot_info.capacity - slot_info.booked

(***************************************************************************)
(* _find_alternative_slots                                                 *)
(***************************************************************************)
AbsDiff(a, b) == IF a >= b THEN a - b ELSE b - a

\* the reference instant: the requested time on the date, or, when that does
\* not parse, datetime.now().replace(hour=12, minute=0)
\* mutant: the reference is noon of the day of the call, whatever was asked
NoonOfToday(date, requested_time, now) ==
  Instant(now.day, FallbackHour * 60 * SecondsPerMinute + (now.tod % SecondsPerMinute))

RequestedInstant(date, requested_time, now) ==
  IF DateParses(date) /\ TimeParses(requested_time)
  THEN ParsedInstant(date, requested_time)
  ELSE Instant(now.day, FallbackHour * 60 * SecondsPerMinute + (now.tod % SecondsPerMinute))

Alternative(date, slot_info, requested_datetime) ==
  [time |-> slot_info.time,
   available_spots |-> Available(slot_info),
   capacity |-> slot_info.capacity,
   time_difference_minutes |->
     AbsDiff(ParsedInstant(date, slot_info.time), requested_datetime) \div SecondsPerMinute]

\* mutant of the loop: full slots are collected too
RECURSIVE CollectFull(_, _, _, _)
CollectFull(date, daySlots, requested_datetime, i) ==
  IF i > Len(daySlots) THEN << >>
  ELSE << Alternative(date, daySlots[i], requested_datetime) >>
         \o CollectFull(date, daySlots, requested_datetime, i + 1)

\* the loop of lines 308-323
RECURSIVE Collect(_, _, _, _)
Collect(date, daySlots, requested_datetime, i) ==
  IF i > Len(daySlots) THEN << >>
  ELSE LET rest == Collect(date, daySlots, requested_datetime, i + 1) IN
       IF Available(daySlots[i]) > 0 /\ DateParses(date) /\ TimeParses(daySlots[i].time)
       THEN << Alternative(date, daySlots[i], requested_datetime) >> \o rest
       ELSE rest

\* mutant: an element goes before the elements whose key is equal
RECURSIVE InsertBeforeEqual(_, _)
InsertBeforeEqual(sorted, x) ==
  IF sorted = << >> THEN << x >>
  ELSE IF Head(sorted).time_difference_minutes < x.time_difference_minutes
       THEN << Head(sorted) >> \o InsertBeforeEqual(Tail(sorted), x)
       ELSE << x >> \o sorted

\* list.sort(key=...) is stable: an element goes after the elements whose key
\* is not greater
RECURSIVE InsertSorted(_, _)
InsertSorted(sorted, x) ==
  IF sorted = << >> THEN << x >>
  ELSE IF Head(sorted).time_difference_minutes <= x.time_difference_minutes
       THEN << Head(sorted) >> \o InsertSorted(Tail(sorted), x)
       ELSE << x >> \o sorted

\* mutant: the list is returned as collected
Unsorted(alts) == alts

RECURSIVE SortByDifference(_)
SortByDifference(alts) ==
  IF alts = << >> THEN << >>
  ELSE InsertSorted(SortByDifference(SubSeq(alts, 1, Len(alts) - 1)), alts[Len(alts)])

_find_alternative_slots(date, requested_time, available_slots, now) ==
  SortByDifference(
    Collect(date, available_slots, RequestedInstant(date, requested_time, now), 1))

(***************************************************************************)
(* _validate_time_slot_with_capacity                                       *)
(***************************************************************************)
NoAlternative ==
  [time |-> Junk, available_spots |-> 0, capacity |-> 0, time_difference_minutes |-> 0]

TimeValidation(status, message, suggestions, slot, alternatives) ==
  [status |-> status, message |-> message, suggestions |-> suggestions,
   slot |-> slot, alternatives |-> alternatives]

\* booking_date.date() < datetime.now().date()
\* mutant: today is in the past too
InPastOrToday(date, now) == date.day <= now.day

InPast(date, now) == date.day < now.day

\* booking_date > datetime.now() + timedelta(days=90)
TooFar(date, now) == Instant(date.day, 0) > Instant(now.day + MaxFutureDays, now.tod)

\* mutant: the list is not cut
Uncut(alternatives) == alternatives

\* alternatives[:5]
Top(alternatives) ==
  SubSeq(alternatives, 1, IF Len(alternatives) < MaxAlternatives THEN Len(alternatives) ELSE MaxAlternatives)

_validate_time_slot_with_capacity(date, time_slot, table, now) ==
  IF ~DateParses(date) THEN TimeValidation("invalid", "bad_format", << "use_iso_format" >>, NoAlternative, << >>)
  ELSE IF InPast(date, now) THEN TimeValidation("invalid", "past", << "choose_future_date" >>, NoAlternative, << >>)
  ELSE IF TooFar(date, now) THEN TimeValidation("invalid", "too_far", << "within_3_months" >>, NoAlternative, << >>)
  ELSE
    LET available_slots == SlotsOf(table, date)
        normalized_time == _normalize_time_slot(time_slot)
        k == IndexOf(available_slots, normalized_time)
        alternatives == _find_alternative_slots(date, normalized_time, available_slots, now)
    IN IF available_slots = << >>
       THEN TimeValidation("no_slots", "no_slots", << "available_dates" >>, NoAlternative, << >>)
       ELSE IF k # 0 /\ Available(available_slots[k]) > 0
       THEN TimeValidation("exact_match", "", << >>,
              [time |-> normalized_time,
               available_spots |-> Available(available_slots[k]),
               capacity |-> available_slots[k].capacity,
               time_difference_minutes |-> 0],
              << >>)
       ELSE IF alternatives # << >>
       THEN TimeValidation("alternative_found", "not_available", << >>,
              alternatives[1], Top(alternatives))
       ELSE TimeValidation("no_capacity", "fully_booked",
              << "try_different_date", "available_dates" >>, NoAlternative, << >>)

(***************************************************************************)
(* validate_intent                                                         *)
(***************************************************************************)
IntentData(provider_name, service_type, date, time_slot) ==
  [provider_name |-> provider_name, service_type |-> service_type,
   date |-> date, time_slot |-> time_slot]

\* not value or value.strip() == ""
\* mutant: only an absent or empty field is missing, a blank one is not
MissingUnlessBlank(v) == v.isNone \/ v.s = << >>

MissingStr(v) == v.isNone \/ v.s = << >> \/ IsBlank(v.s)
MissingToken(v) == v.form \in {"none", "empty", "blank"}

required_fields == << "provider_name", "service_type", "date", "time_slot" >>

FieldMissing(intent_data, field) ==
  CASE field = "provider_name" -> MissingStr(intent_data.provider_name)
    [] field = "service_type" -> MissingStr(intent_data.service_type)
    [] field = "date" -> MissingToken(intent_data.date)
    [] field = "time_slot" -> MissingToken(intent_data.time_slot)

RECURSIVE MissingFrom(_, _)
MissingFrom(intent_data, i) ==
  IF i > Len(required_fields) THEN << >>
  ELSE IF FieldMissing(intent_data, required_fields[i])
       THEN << required_fields[i] >> \o MissingFrom(intent_data, i + 1)
       ELSE MissingFrom(intent_data, i + 1)

_check_missing_fields(intent_data) == MissingFrom(intent_data, 1)

\* every required field has a prompt; the prompt of a field is named by it
field_prompts == { "provider_name", "service_type", "date", "time_slot" }

_generate_missing_field_suggestions(missing_fields) ==
  SelectSeq(missing_fields, LAMBDA f : f \in field_prompts)

\* mutant: the requested name must be contained in the catalog name
ContainedInCatalogName(provider_name, available) ==
  IsSubstring(Lower(provider_name), Lower(available))

ProviderMatches(provider_name, available) ==
  LET provider_lower == Lower(provider_name) IN
  \/ IsSubstring(provider_lower, Lower(available))
  \/ IsSubstring(Lower(available), provider_lower)
  \/ provider_lower = Lower(available)

_validate_provider(provider_name, service_type) ==
  IF service_type = << >> \/ service_type \notin DOMAIN MOCK_PROVIDERS
  THEN [valid |-> FALSE, message |-> "unknown_service",
        suggestions |-> << "service_types" >>]
  ELSE IF \E i \in 1..Len(MOCK_PROVIDERS[service_type]) :
            ProviderMatches(provider_name, MOCK_PROVIDERS[service_type][i])
  THEN [valid |-> TRUE, message |-> "validated", suggestions |-> << >>]
  ELSE [valid |-> FALSE, message |-> "provider_not_found",
        suggestions |-> << "providers_of_service" >>]

NoData ==
  [present |-> FALSE, provider_name |-> NoneStr, service_type |-> NoneStr,
   date |-> NoneDate, time_slot |-> NoneTime, available_spots |-> 0,
   booking_reference |-> 0]

ValidatedData(intent_data, slot, now) ==
  [present |-> TRUE, provider_name |-> intent_data.provider_name,
   service_type |-> intent_data.service_type, date |-> intent_data.date,
   time_slot |-> slot.time, available_spots |-> slot.available_spots,
   booking_reference |-> Instant(now.day, now.tod)]

ValidationResponse(is_valid, validation_result, error_message, suggestions,
                   validated_data, alternative_slots, next_action) ==
  [is_valid |-> is_valid, validation_result |-> validation_result,
   error_message |-> error_message, suggestions |-> suggestions,
   validated_data |-> validated_data, alternative_slots |-> alternative_slots,
   next_action |-> next_action]

\* mutant: only a slot step that found no capacity returns an error
ProceedsUnlessFull(status) ==
  IF status = "no_capacity" THEN "return_error" ELSE "proceed_to_booking"

\* the next_action of the three outcomes of the slot step (lines 130, 153, 164)
NextActionOf(status) ==
  IF status \in {"exact_match", "alternative_found"} THEN "proceed_to_booking"
  ELSE "return_error"

validate_intent(intent_data, table, now) ==
  LET missing_fields == _check_missing_fields(intent_data) IN
  IF missing_fields # << >>
  THEN ValidationResponse(FALSE, "missing_required_data", "missing",
         _generate_missing_field_suggestions(missing_fields), NoData, << >>,
         "return_error")
  ELSE
  LET provider_validation ==
        _validate_provider(intent_data.provider_name.s, intent_data.service_type.s) IN
  IF ~provider_validation.valid
  THEN ValidationResponse(FALSE, "invalid_provider", provider_validation.message,
         provider_validation.suggestions, NoData, << >>, "return_error")
  ELSE
  LET time_validation ==
        _validate_time_slot_with_capacity(intent_data.date, intent_data.time_slot, table, now) IN
  IF time_validation.status = "exact_match"
  THEN ValidationResponse(TRUE, "valid", "", << >>,
         ValidatedData(intent_data, time_validation.slot, now), << >>,
         NextActionOf(time_validation.status))
  ELSE IF time_validation.status = "alternative_found"
  THEN ValidationResponse(TRUE, "valid_with_alternative", time_validation.message,
         << "preferred_not_available", "nearest_slot", "other_times" >>,
         ValidatedData(intent_data, time_validation.slot, now),
         time_validation.alternatives, NextActionOf(time_validation.status))
  ELSE ValidationResponse(FALSE, "no_capacity", time_validation.message,
         time_validation.suggestions, NoData, time_validation.alternatives,
         NextActionOf(time_validation.status))

\* validate_intent_endpoint when IntentData(**data) or req.json() raises
EndpointError ==
  ValidationResponse(FALSE, "missing_required_data", "validation_error", << >>,
    NoData, << >>, "return_error")

(***************************************************************************)
(* book_slot                                                               *)
(***************************************************************************)
BookResult(success, message, remaining_spots) ==
  [success |-> success, message |-> message, remaining_spots |-> remaining_spots]

\* mutants of the guard: <= 0 written as < 0, and as <= 1
AcceptsWhenFull(slot_info) == ~(Available(slot_info) < 0)
RefusesLastPlace(slot_info) == ~(Available(slot_info) <= 1)

\* the guard of line 381 negated: the slot can take one more booking
HasCapacity(slot_info) == ~(Available(slot_info) <= 0)

\* mutant of the increment: the booking is counted twice
IncrementTwice(slot_info) == [slot_info EXCEPT !.booked = @ + 2]

\* line 385
Increment(slot_info) == [slot_info EXCEPT !.booked = @ + 1]

\* the slot table after book_slot(date, time_slot, provider)
BookedTable(table, date, time_slot) ==
  IF ~HasDate(table, date) THEN table
  ELSE LET k == IndexOf(table[date.day], time_slot) IN
       IF k = 0 THEN table
       ELSE IF ~HasCapacity(table[date.day][k]) THEN table
       ELSE [table EXCEPT ![date.day][k] = Increment(@)]

\* mutant of book_slot: a time the date does not hold is reported as a full
\* slot, and booked
book_slot_any_time(table, date, time_slot) ==
  IF ~HasDate(table, date) THEN BookResult(FALSE, "Date not available", 0)
  ELSE LET k == IndexOf(table[date.day], time_slot) IN
       IF k = 0 \/ ~HasCapacity(table[date.day][k])
       THEN BookResult(FALSE, "No capacity available", 0)
       ELSE BookResult(TRUE, "Slot booked successfully",
              Available(BookedTable(table, date, time_slot)[date.day][k]))

\* what book_slot(date, time_slot, provider) returns
book_slot(table, date, time_slot) ==
  IF ~HasDate(table, date) THEN BookResult(FALSE, "Date not available", 0)
  ELSE LET k == IndexOf(table[date.day], time_slot) IN
       IF k = 0 THEN BookResult(FALSE, "Time slot not available", 0)
       ELSE IF ~HasCapacity(table[date.day][k])
       THEN BookResult(FALSE, "No capacity available", 0)
       ELSE BookResult(TRUE, "Slot booked successfully",
              Available(BookedTable(table, date, time_slot)[date.day][k]))

(***************************************************************************)
(* State                                                                   *)
(*   slots : MOCK_TIME_SLOTS, the process-wide slot table                  *)
(*   book  : for each client of /book-slot, where its request stands:      *)
(*           idle, parsed (req.json() returned, book_slot not yet run),    *)
(*           done (the result is computed); seen records the available     *)
(*           count of the requested slot when the request was parsed       *)
(*   call  : the last /validate-intent call: its input, the clock reading  *)
(*           it got, and what it returned; earlier records the clock       *)
(*           reading and the answer of the call made before it with the    *)
(*           same input, normalized what _normalize_time_slot made of the  *)
(*           requested time when it was applied alone                      *)
(*   taken : for each slot, the number of book_slot calls on it that       *)
(*           succeeded so far                                              *)
(***************************************************************************)
VARIABLES slots, book, call, taken

vars == << slots, book, call, taken >>

Clients == 1..NumClients

NoResult == BookResult(FALSE, "", 0)

IdleClient ==
  [pc |-> "idle", date |-> NoneDate, time_slot |-> NoneTime, seen |-> 0, result |-> NoResult]

Clock(day, tod) == [day |-> day, tod |-> tod]

NoIntent == IntentData(NoneStr, NoneStr, NoneDate, NoneTime)

\* no call was made before this one
NoEarlier == [now |-> Clock(0, 0), response |-> EndpointError]

Call(st, intent_data, now, response, ranking) ==
  [st |-> st, intent |-> intent_data, now |-> now, response |-> response, ranking |-> ranking,
   earlier |-> NoEarlier, normalized |-> NoneTime]

NoCall == Call("none", NoIntent, Clock(0, 0), EndpointError, << >>)

\* the available count of the slot (date, time_slot), 0 when there is none
AvailableAt(table, date, time_slot) ==
  IF HasDate(table, date) /\ IndexOf(table[date.day], time_slot) # 0
  THEN Available(table[date.day][IndexOf(table[date.day], time_slot)])
  ELSE 0

SlotExists(table, date, time_slot) ==
  HasDate(table, date) /\ IndexOf(table[date.day], time_slot) # 0

\* mutant: validating reserves the slot it confirms
ReservingValidate(table, intent_data, now) ==
  IF validate_intent(intent_data, table, now).is_valid
  THEN BookedTable(table, intent_data.date,
         validate_intent(intent_data, table, now).validated_data.time_slot)
  ELSE table

\* the writes validate_intent makes to the slot table: none
TableAfterValidate(table, intent_data, now) == table

(***************************************************************************)
(* Inputs                                                                  *)
(***************************************************************************)
DrSmith == MOCK_PROVIDERS[Svc_medical][1]

Providers ==
  { NoneStr, Str(<< >>), Str(<<" ", " ">>), Str(DrSmith),
    Str(<<"s","m","i","t","h">>), Str(DrSmith \o <<" ","J","r">>),
    Str(<<"D","R","."," ","S","M","I","T","H">>), Str(<<"Z","e","d">>) }

Services ==
  { NoneStr, Str(<< >>), Str(<<" ">>), Str(Svc_medical), Str(Svc_dental),
    Str(<<"M","e","d","i","c","a","l">>), Str(<<"f","i","t","n","e","s","s">>) }

Dates ==
  { Iso(0), Iso(1), Iso(2), Iso(7), Iso(-1), Loose(0), BadDate, NoneDate, EmptyDate, BlankDate }

Times ==
  { HHMM(10, 0), HHMM(9, 0), HMM(9, 0), HHMM(15, 30), HHMM(16, 0), HHMM(25, 0), HHMM(14, 60),
    AmPm(2, 30, "pm"), Upper(AmPm(2, 30, "pm")), AmPmHour(12, "am"), AmPmHour(12, "pm"),
    AmPmHour(10, "am"), AmPmHour(13, "pm"), Word("morning"), Upper(Word("noon")),
    Spaced(Word("afternoon")), Word("evening"), Word("tonight"), Short(9, 5), Junk,
    NoneTime, EmptyTime, BlankTime }

Clocks ==
  { Clock(-91, 86399), Clock(-90, 0), Clock(-1, 43230), Clock(0, 0), Clock(0, 43230),
    Clock(1, 0) }

\* requests of the running server: every outcome of validate_intent occurs
ServerIntents ==
  { IntentData(Str(DrSmith), Str(Svc_medical), Iso(0), HHMM(10, 0)),
    IntentData(Str(DrSmith), Str(Svc_medical), Iso(0), HHMM(16, 0)),
    IntentData(Str(DrSmith), Str(Svc_medical), Iso(0), Junk),
    IntentData(Str(DrSmith), Str(Svc_medical), Iso(7), HHMM(10, 0)),
    IntentData(Str(DrSmith), Str(Svc_medical), BadDate, HHMM(10, 0)),
    IntentData(Str(<<"Z","e","d">>), Str(Svc_medical), Iso(0), HHMM(10, 0)),
    IntentData(Str(DrSmith), Str(Svc_medical), Iso(0), EmptyTime) }

ServerClocks == { Clock(0, 43230), Clock(1, 0) }

\* requests of /book-slot: slots with two, one and no free place, a time and
\* a date the table does not hold
BookTargets ==
  { << Iso(0), HHMM(9, 0) >>, << Iso(0), HHMM(10, 0) >>, << Iso(0), HHMM(16, 0) >>,
    << Iso(0), HMM(9, 0) >>, << Iso(7), HHMM(9, 0) >> }

(***************************************************************************)
(* The server: /book-slot and /validate-intent on the process-wide table   *)
(***************************************************************************)
\* no call has succeeded on any slot of the table
NoneTaken(table) == [d \in DOMAIN table |-> [i \in 1..Len(table[d]) |-> 0]]

\* one more successful call on the slot (date, time_slot)
Counted(counts, table, date, time_slot) ==
  [counts EXCEPT ![date.day][IndexOf(table[date.day], time_slot)] = @ + 1]

Init ==
  /\ slots = MOCK_TIME_SLOTS
  /\ book = [c \in Clients |-> IdleClient]
  /\ call = NoCall
  /\ taken = NoneTaken(MOCK_TIME_SLOTS)

\* book_slot_endpoint up to its await: req.json() returned the body
Receive(c, date, time_slot) ==
  /\ book[c].pc = "idle"
  /\ book' = [book EXCEPT ![c] =
       [pc |-> "parsed", date |-> date, time_slot |-> time_slot,
        seen |-> AvailableAt(slots, date, time_slot), result |-> NoResult]]
  /\ UNCHANGED << slots, call, taken >>

\* book_slot_endpoint when req.json() or data.get raises
ReceiveMalformed(c) ==
  /\ book[c].pc = "idle"
  /\ book' = [book EXCEPT ![c] =
       [IdleClient EXCEPT !.pc = "done", !.result = BookResult(FALSE, "Booking error", 0)]]
  /\ UNCHANGED << slots, call, taken >>

\* validator.book_slot(date, time_slot, provider): no await inside, so it
\* runs to its return without another coroutine in between
Commit(c) ==
  /\ book[c].pc = "parsed"
  /\ book' = [book EXCEPT ![c].pc = "done",
                          ![c].result = book_slot(slots, book[c].date, book[c].time_slot)]
  /\ slots' = BookedTable(slots, book[c].date, book[c].time_slot)
  /\ taken' = IF book_slot(slots, book[c].date, book[c].time_slot).success
              THEN Counted(taken, slots, book[c].date, book[c].time_slot)
              ELSE taken
  /\ UNCHANGED call

\* the response is sent; the client may call again
Return(c) ==
  /\ book[c].pc = "done"
  /\ book' = [book EXCEPT ![c] = IdleClient]
  /\ UNCHANGED << slots, call, taken >>

\* validate_intent_endpoint with a body IntentData accepts
Validate(intent_data, now) ==
  /\ call.st = "none"
  /\ call' = Call("validated", intent_data, now, validate_intent(intent_data, slots, now), << >>)
  /\ slots' = TableAfterValidate(slots, intent_data, now)
  /\ UNCHANGED << book, taken >>

\* validate_intent_endpoint when req.json() or IntentData(**data) raises
ValidateMalformed ==
  /\ call.st = "none"
  /\ call' = Call("malformed", NoIntent, Clock(0, 0), EndpointError, << >>)
  /\ UNCHANGED << slots, book, taken >>

\* the response of /validate-intent is sent
Respond ==
  /\ call.st # "none"
  /\ call' = NoCall
  /\ UNCHANGED << slots, book, taken >>

Next ==
  \/ \E c \in Clients, g \in BookTargets : Receive(c, g[1], g[2])
  \/ \E c \in Clients : ReceiveMalformed(c)
  \/ \E c \in Clients : Commit(c)
  \/ \E c \in Clients : Return(c)
  \/ \E i \in ServerIntents, n \in ServerClocks : Validate(i, n)
  \/ ValidateMalformed
  \/ Respond

Spec == Init /\ [][Next]_vars

(***************************************************************************)
(* The functions on drawn inputs: a slot set for day 0, an IntentData and  *)
(* a clock reading are drawn, and validate_intent or                       *)
(* _find_alternative_slots is applied to them                              *)
(***************************************************************************)
\* the times and capacities drawn slot sets are made of, in enumeration order
Pool ==
  << [h |-> 11, m |-> 0, capacity |-> 4], [h |-> 9, m |-> 0, capacity |-> 3],
     [h |-> 10, m |-> 0, capacity |-> 2], [h |-> 14, m |-> 0, capacity |-> 3],
     [h |-> 16, m |-> 0, capacity |-> 2], [h |-> 15, m |-> 0, capacity |-> 2],
     [h |-> 12, m |-> 30, capacity |-> 3], [h |-> 8, m |-> 0, capacity |-> 2] >>

PoolSize == IF NumTimes < Len(Pool) THEN NumTimes ELSE Len(Pool)

\* a drawn slot set: each time of the pool is absent, has one booking, or is full
RECURSIVE DrawnSlots(_, _)
DrawnSlots(f, i) ==
  IF i > PoolSize THEN << >>
  ELSE IF f[i] = "absent" THEN DrawnSlots(f, i + 1)
  ELSE << Slot(Pool[i].h, Pool[i].m, Pool[i].capacity,
               IF f[i] = "full" THEN Pool[i].capacity ELSE 1) >> \o DrawnSlots(f, i + 1)

DrawnTable(f) == 0 :> DrawnSlots(f, 1)

DrawnTables == { DrawnTable(f) : f \in [1..PoolSize -> {"absent", "one", "full"}] }

\* 09:00 (capacity 3, booked 1) and 10:00 (capacity 2, booked 2)
ExampleTable ==
  DrawnTable([i \in 1..PoolSize |-> IF i = 2 THEN "one" ELSE IF i = 3 THEN "full" ELSE "absent"])

SomeTables ==
  { ExampleTable, DrawnTable([i \in 1..PoolSize |-> "one"]),
    DrawnTable([i \in 1..PoolSize |-> "full"]), MOCK_TIME_SLOTS }

RankTimes == { HHMM(10, 0), HHMM(15, 0), AmPm(2, 30, "pm"), Junk }

RankClocks == { Clock(-1, 43230), Clock(0, 43230) }

DrawnCalls ==
  { Call("drawn", IntentData(Str(DrSmith), Str(Svc_medical), Iso(0), t), n, EndpointError, << >>) :
      t \in RankTimes, n \in RankClocks }

WideCalls ==
  { Call("drawn", IntentData(Str(DrSmith), Str(Svc_medical), d, t), n, EndpointError, << >>) :
      d \in Dates, t \in Times, n \in Clocks }
  \cup
  { Call("drawn", IntentData(p, v, Iso(0), HHMM(10, 0)), Clock(0, 0), EndpointError, << >>) :
      p \in Providers, v \in Services }

\* every field absent, blank, acceptable or refused, in every combination
CrossCalls ==
  { Call("drawn", IntentData(p, v, d, t), Clock(0, 43230), EndpointError, << >>) :
      p \in { NoneStr, Str(<< >>), Str(<<" ", " ">>), Str(DrSmith), Str(<<"Z","e","d">>) },
      v \in { NoneStr, Str(<<" ">>), Str(Svc_medical), Str(<<"f","i","t","n","e","s","s">>) },
      d \in { NoneDate, BlankDate, Iso(0), Iso(-1), BadDate },
      t \in { NoneTime, EmptyTime, HHMM(10, 0), Junk } }

InitFn ==
  /\ book = [c \in Clients |-> IdleClient]
  /\ taken = << >>
  /\ \/ slots \in DrawnTables /\ call \in DrawnCalls
     \/ slots \in SomeTables /\ call \in WideCalls \cup CrossCalls

\* validate_intent(intent_data) on the drawn table at the drawn clock reading
ApplyValidate ==
  /\ call.st = "drawn"
  /\ call' = [call EXCEPT !.st = "validated",
                          !.response = validate_intent(call.intent, slots, call.now)]
  /\ slots' = TableAfterValidate(slots, call.intent, call.now)
  /\ UNCHANGED << book, taken >>

\* _find_alternative_slots(date, normalized_time, available_slots) on the
\* drawn slot set, as line 268 calls it
ApplyRank ==
  /\ call.st = "drawn"
  /\ ~MissingToken(call.intent.time_slot)
  /\ ~MissingToken(call.intent.date)
  /\ call' = [call EXCEPT !.st = "ranked",
                          !.ranking = _find_alternative_slots(call.intent.date,
                                        _normalize_time_slot(call.intent.time_slot),
                                        slots[0], call.now)]
  /\ UNCHANGED << slots, book, taken >>

\* validate_intent_endpoint when the drawn body is not an IntentData
ApplyMalformed ==
  /\ call.st = "drawn"
  /\ call' = [call EXCEPT !.st = "malformed", !.response = EndpointError]
  /\ UNCHANGED << slots, book, taken >>

\* validate_intent(intent_data) once more, with the same IntentData on the
\* same table, at a clock reading that is not earlier
ApplyAgain(now) ==
  /\ call.st = "validated"
  /\ Instant(now.day, now.tod) >= Instant(call.now.day, call.now.tod)
  /\ call' = [call EXCEPT !.st = "revalidated", !.now = now,
                          !.response = validate_intent(call.intent, slots, now),
                          !.earlier = [now |-> call.now, response |-> call.response]]
  /\ slots' = TableAfterValidate(slots, call.intent, now)
  /\ UNCHANGED << book, taken >>

NextFn ==
  \/ ApplyValidate
  \/ ApplyRank
  \/ ApplyMalformed
  \/ \E n \in Clocks : ApplyAgain(n)

SpecFn == InitFn /\ [][NextFn]_vars

(***************************************************************************)
(* _normalize_time_slot on drawn time expressions                          *)
(***************************************************************************)
ClockHours == 1..12
DayHours == 0..23
Minutes == 0..59

\* a time expression as written, in capitals, between spaces, and both
Written(t) == { t, Upper(t), Spaced(t), UpperSpaced(t) }

TimeExpressions ==
  UNION { Written(t) :
    t \in { Word(w) : w \in {"morning", "afternoon", "evening", "noon", "tonight"} }
       \cup { AmPm(h, m, p) : h \in ClockHours, m \in Minutes, p \in {"am", "pm"} }
       \cup { AmPmHour(h, p) : h \in ClockHours, p \in {"am", "pm"} }
       \cup { HHMM(h, m) : h \in DayHours, m \in Minutes }
       \cup { HMM(h, m) : h \in 0..9, m \in Minutes }
       \cup { Junk } }

InitNorm ==
  /\ slots = MOCK_TIME_SLOTS
  /\ taken = << >>
  /\ book = [c \in Clients |-> IdleClient]
  /\ call \in { Call("drawn", IntentData(Str(DrSmith), Str(Svc_medical), Iso(0), t),
                      Clock(0, 0), EndpointError, << >>) : t \in TimeExpressions }

\* self._normalize_time_slot(time_slot), as line 249 calls it
ApplyNormalize ==
  /\ call.st = "drawn"
  /\ call' = [call EXCEPT !.st = "normalized",
                          !.normalized = _normalize_time_slot(call.intent.time_slot)]
  /\ UNCHANGED << slots, book, taken >>

NextNorm == ApplyNormalize

SpecNorm == InitNorm /\ [][NextNorm]_vars

(***************************************************************************)
(* Properties                                                              *)
(***************************************************************************)
\* client c's request runs book_slot in this step
Commits(c) == book[c].pc = "parsed" /\ book'[c].pc = "done"

Succeeded(c) == book[c].pc = "done" /\ book[c].result.success

CapacityError(c) ==
  /\ book[c].pc = "done"
  /\ ~book[c].result.success
  /\ book[c].result.message = "No capacity available"

NotFoundError(c) ==
  /\ book[c].pc = "done"
  /\ ~book[c].result.success
  /\ book[c].result.message \in {"Date not available", "Time slot not available"}

\* C1: in the initial slot table and after any sequence of book_slot calls,
\* every slot of every date has 0 <= booked <= capacity
C1_BookedWithinCapacity ==
  \A d \in DOMAIN slots : \A i \in 1..Len(slots[d]) :
    /\ 0 <= slots[d][i].booked
    /\ slots[d][i].booked <= slots[d][i].capacity

\* the 16:00 slot of day 0 (capacity 1) was booked and a later call on it was
\* refused
C1_Witness ==
  /\ slots[0][6].booked = slots[0][6].capacity
  /\ \E c \in Clients : CapacityError(c) /\ book[c].date = Iso(0) /\ book[c].time_slot = HHMM(16, 0)
  /\ \E c \in Clients : Succeeded(c) /\ book[c].date = Iso(0) /\ book[c].time_slot = HHMM(16, 0)

\* the two finished calls of c1 and c2 target one slot that had one free place
\* when the earlier of them was parsed, and no other call has taken a place of
\* that slot since
LastPlaceContended(c1, c2) ==
  /\ c1 # c2
  /\ book[c1].pc = "done" /\ book[c2].pc = "done"
  /\ book[c1].date = book[c2].date /\ book[c1].time_slot = book[c2].time_slot
  /\ SlotExists(slots, book[c1].date, book[c1].time_slot)
  /\ (IF book[c1].seen >= book[c2].seen THEN book[c1].seen ELSE book[c2].seen) = 1
  /\ 1 - AvailableAt(slots, book[c1].date, book[c1].time_slot)
       = (IF book[c1].result.success THEN 1 ELSE 0) + (IF book[c2].result.success THEN 1 ELSE 0)

\* C2: of two book_slot calls on the same slot with one free place, in any
\* interleaving, exactly one succeeds and the other fails with the capacity
\* error
C2_LastPlaceTakenOnce ==
  \A c1, c2 \in Clients :
    LastPlaceContended(c1, c2) =>
      \/ Succeeded(c1) /\ CapacityError(c2)
      \/ Succeeded(c2) /\ CapacityError(c1)

\* both requests were parsed while the slot had its last place free
C2_Witness ==
  \E c1, c2 \in Clients :
    /\ LastPlaceContended(c1, c2)
    /\ book[c1].seen = 1 /\ book[c2].seen = 1
    /\ Succeeded(c1) /\ CapacityError(c2)

\* the slot table with the booked count of slot k of day d one higher
OneMoreBooked(table, d, k) ==
  [e \in DOMAIN table |->
    [i \in 1..Len(table[e]) |->
      IF e = d /\ i = k
      THEN [time |-> table[e][i].time, capacity |-> table[e][i].capacity,
            booked |-> table[e][i].booked + 1]
      ELSE table[e][i]]]

\* C3: a book_slot call on an existing slot with available > 0 succeeds, adds
\* exactly 1 to that slot's booked count, reports remaining_spots = capacity -
\* the new booked count, and changes nothing else of the table
C3_CommitBooksOne ==
  [][\A c \in Clients :
       (Commits(c) /\ AvailableAt(slots, book[c].date, book[c].time_slot) > 0) =>
         LET d == book[c].date.day
             k == IndexOf(slots[d], book[c].time_slot)
         IN /\ book'[c].result.success
            /\ slots' = OneMoreBooked(slots, d, k)
            /\ book'[c].result.remaining_spots = slots'[d][k].capacity - slots'[d][k].booked]_vars

\* a call booked the 09:00 slot of day 0 (capacity 3, booked 1) and reported
\* one remaining place
C3_Witness ==
  \E c \in Clients :
    /\ Succeeded(c) /\ book[c].date = Iso(0) /\ book[c].time_slot = HHMM(9, 0)
    /\ book[c].seen = 2
    /\ book[c].result.remaining_spots = 1
    /\ slots[0][1].booked = 2

\* C4: book_slot fails with a not-found outcome when the (date, time) pair is
\* not in the table, with the distinct capacity outcome when the slot exists
\* with available <= 0, and in both cases leaves the table unchanged
C4_FailuresLeaveTable ==
  [][\A c \in Clients :
       Commits(c) =>
         /\ ~SlotExists(slots, book[c].date, book[c].time_slot) =>
              /\ ~book'[c].result.success
              /\ book'[c].result.message \in {"Date not available", "Time slot not available"}
              /\ slots' = slots
         /\ (SlotExists(slots, book[c].date, book[c].time_slot)
               /\ AvailableAt(slots, book[c].date, book[c].time_slot) <= 0) =>
              /\ ~book'[c].result.success
              /\ book'[c].result.message = "No capacity available"
              /\ slots' = slots]_vars

\* one call was refused for a time the date does not hold, another for a full
\* slot
C4_Witness ==
  \E c1, c2 \in Clients :
    /\ NotFoundError(c1) /\ book[c1].date = Iso(0) /\ book[c1].time_slot = HMM(9, 0)
    /\ CapacityError(c2) /\ book[c2].date = Iso(0) /\ book[c2].time_slot = HHMM(10, 0)
    /\ slots = MOCK_TIME_SLOTS

\* C5: validate_intent never changes the slot table, whatever its outcome;
\* only a successful book_slot changes it
C5_OnlyBookSlotWrites ==
  [][/\ (call.st = "none" /\ call'.st \in {"validated", "malformed"}) => slots' = slots
     /\ slots' # slots => \E c \in Clients : Commits(c) /\ book'[c].result.success]_vars

\* after a booking changed the table, a validation answered with an alternative
C5_Witness ==
  /\ call.st = "validated"
  /\ call.response.validation_result = "valid_with_alternative"
  /\ slots # MOCK_TIME_SLOTS

Answered == call.st \in {"validated", "malformed"}

\* C6: next_action is proceed_to_booking exactly when validation_result is
\* VALID or VALID_WITH_ALTERNATIVE, and return_error for every other result
C6_NextActionFollowsResult ==
  Answered =>
    /\ call.response.validation_result \in {"valid", "valid_with_alternative"}
         => call.response.next_action = "proceed_to_booking"
    /\ call.response.validation_result \notin {"valid", "valid_with_alternative"}
         => call.response.next_action = "return_error"

\* a date more than 90 days ahead was rejected with return_error
C6_Witness ==
  /\ call.st = "validated"
  /\ call.response.error_message = "too_far"
  /\ call.response.next_action = "return_error"
  /\ ~call.response.is_valid

\* the request is complete and names a provider of the catalog
CompleteWithProvider(intent_data) ==
  /\ _check_missing_fields(intent_data) = << >>
  /\ _validate_provider(intent_data.provider_name.s, intent_data.service_type.s).valid

\* the position, among the slots of the requested date, of the slot whose time
\* is the normalized requested time; 0 if there is none
RequestedSlot(intent_data) ==
  IF HasDate(slots, intent_data.date) /\ ~MissingToken(intent_data.time_slot)
  THEN IndexOf(slots[intent_data.date.day], _normalize_time_slot(intent_data.time_slot))
  ELSE 0

WithinDateBounds(intent_data, now) ==
  /\ intent_data.date.day >= now.day
  /\ (intent_data.date.day - now.day) * SecondsPerDay <= MaxFutureDays * SecondsPerDay + now.tod

ExactMatchAnswer(intent_data, response) ==
  LET slot_info == slots[intent_data.date.day][RequestedSlot(intent_data)] IN
  /\ response.validation_result = "valid"
  /\ response.validated_data.present
  /\ response.validated_data.time_slot = _normalize_time_slot(intent_data.time_slot)
  /\ response.validated_data.available_spots = slot_info.capacity - slot_info.booked

FreeRequestedSlot(intent_data) ==
  /\ RequestedSlot(intent_data) # 0
  /\ LET slot_info == slots[intent_data.date.day][RequestedSlot(intent_data)] IN
       slot_info.capacity - slot_info.booked > 0

\* C7 as stated: a complete request with a valid provider whose normalized
\* time is the time of a slot of the requested date with available > 0 yields
\* VALID with that time and capacity - booked available spots
C7_Original ==
  (call.st = "validated" /\ CompleteWithProvider(call.intent) /\ FreeRequestedSlot(call.intent))
    => ExactMatchAnswer(call.intent, call.response)

\* C7 amended: the same, for a date that is not before today and not more
\* than 90 days after now
C7_ExactMatchWithinDateBounds ==
  (call.st = "validated" /\ CompleteWithProvider(call.intent) /\ FreeRequestedSlot(call.intent)
     /\ WithinDateBounds(call.intent, call.now))
    => ExactMatchAnswer(call.intent, call.response)

\* "morning" was validated, within the date bounds, against a slot set whose
\* 09:00 slot has a free place
C7_Witness ==
  /\ call.st = "validated"
  /\ call.intent.time_slot = Word("morning")
  /\ CompleteWithProvider(call.intent) /\ FreeRequestedSlot(call.intent)
  /\ WithinDateBounds(call.intent, call.now)
  /\ call.response.validation_result = "valid"
  /\ call.response.validated_data.time_slot = HHMM(9, 0)

FreePlaces(slot_info) == slot_info.capacity - slot_info.booked

FullRequestedSlot(intent_data) ==
  /\ RequestedSlot(intent_data) # 0
  /\ FreePlaces(slots[intent_data.date.day][RequestedSlot(intent_data)]) = 0

SomeSlotFree(intent_data) ==
  \E i \in 1..Len(slots[intent_data.date.day]) : FreePlaces(slots[intent_data.date.day][i]) > 0

NotValidForRequestedTime(intent_data, response) ==
  ~(/\ response.validation_result = "valid"
    /\ response.validated_data.time_slot = _normalize_time_slot(intent_data.time_slot))

AlternativeOrNoCapacity(intent_data, response) ==
  /\ SomeSlotFree(intent_data) => response.validation_result = "valid_with_alternative"
  /\ ~SomeSlotFree(intent_data) => response.validation_result = "no_capacity"

\* C8 as stated: a request whose normalized time names a slot with available
\* = 0 is never answered VALID for that time: it is answered
\* VALID_WITH_ALTERNATIVE when another slot of the date has a free place and
\* NO_CAPACITY when none has
C8_Original ==
  (call.st = "validated" /\ FullRequestedSlot(call.intent)) =>
    /\ NotValidForRequestedTime(call.intent, call.response)
    /\ AlternativeOrNoCapacity(call.intent, call.response)

\* C8 amended: never VALID for that time; VALID_WITH_ALTERNATIVE or
\* NO_CAPACITY as stated when the request is complete, its provider valid and
\* its date within the date bounds
C8_FullSlotWithinDateBounds ==
  (call.st = "validated" /\ FullRequestedSlot(call.intent)) =>
    /\ NotValidForRequestedTime(call.intent, call.response)
    /\ (CompleteWithProvider(call.intent) /\ WithinDateBounds(call.intent, call.now))
         => AlternativeOrNoCapacity(call.intent, call.response)

\* 10:00 was requested, within the date bounds, from a slot set with several
\* slots, all full
C8_Witness ==
  /\ call.st = "validated"
  /\ call.intent.time_slot = HHMM(10, 0)
  /\ FullRequestedSlot(call.intent)
  /\ CompleteWithProvider(call.intent) /\ WithinDateBounds(call.intent, call.now)
  /\ Len(slots[0]) >= 3
  /\ ~SomeSlotFree(call.intent)
  /\ call.response.validation_result = "no_capacity"

\* C9: for every date, requested time and slot set, the sequence
\* _find_alternative_slots returns is sorted by non-decreasing
\* time_difference_minutes, holds only slots with capacity - booked > 0, and
\* holds each such slot exactly once
C9_RankingSortedAndComplete ==
  (call.st = "ranked" /\ DateParses(call.intent.date)) =>
    LET r == call.ranking
        daySlots == slots[0]
    IN /\ \A i, j \in 1..Len(r) :
            i < j => r[i].time_difference_minutes <= r[j].time_difference_minutes
       /\ \A i \in 1..Len(r) :
            /\ r[i].available_spots > 0
            /\ \E k \in 1..Len(daySlots) :
                 /\ daySlots[k].time = r[i].time
                 /\ r[i].available_spots = FreePlaces(daySlots[k])
                 /\ r[i].capacity = daySlots[k].capacity
       /\ \A k \in 1..Len(daySlots) :
            FreePlaces(daySlots[k]) > 0 =>
              Cardinality({ i \in 1..Len(r) : r[i].time = daySlots[k].time }) = 1

\* six slots with a free place were ranked for 10:00: 10:00 first, then 11:00
\* and 09:00 at the same distance, in the order the slot set holds them
C9_Witness ==
  /\ call.st = "ranked"
  /\ Len(call.ranking) = 6
  /\ call.ranking[1].time = HHMM(10, 0) /\ call.ranking[1].time_difference_minutes = 0
  /\ call.ranking[2].time = HHMM(11, 0) /\ call.ranking[2].time_difference_minutes = 60
  /\ call.ranking[3].time = HHMM(9, 0) /\ call.ranking[3].time_difference_minutes = 60

MinuteOfDay(t) == t.h * 60 + t.m

Min(a, b) == IF a <= b THEN a ELSE b

\* C10: in a VALID_WITH_ALTERNATIVE response the validated time_slot is the
\* first entry of the ranking, no slot of the date with a free place is nearer
\* to the requested time, and alternative_slots is the first min(5, n) entries
\* of the ranking in ranking order; with 09:00 (3, 1) and 10:00 (2, 2) a
\* request for 10:00 is answered with 09:00 and 2 available spots
C10_NearestSuggestedTopFive ==
  /\ (call.st = "validated" /\ call.response.validation_result = "valid_with_alternative") =>
       LET daySlots == slots[call.intent.date.day]
           requested == _normalize_time_slot(call.intent.time_slot)
           ranking == _find_alternative_slots(call.intent.date, requested, daySlots, call.now)
           n == Cardinality({ k \in 1..Len(daySlots) : FreePlaces(daySlots[k]) > 0 })
           suggested == call.response.validated_data
           alts == call.response.alternative_slots
       IN /\ n >= 1
          /\ suggested.time_slot = ranking[1].time
          /\ suggested.available_spots = ranking[1].available_spots
          /\ \E k \in 1..Len(daySlots) :
               /\ daySlots[k].time = suggested.time_slot
               /\ FreePlaces(daySlots[k]) = suggested.available_spots
               /\ FreePlaces(daySlots[k]) > 0
          /\ TimeParses(requested) =>
               \A k \in 1..Len(daySlots) :
                 FreePlaces(daySlots[k]) > 0 =>
                   AbsDiff(MinuteOfDay(daySlots[k].time), MinuteOfDay(requested))
                     >= AbsDiff(MinuteOfDay(suggested.time_slot), MinuteOfDay(requested))
          /\ \A i \in 1..Len(ranking) :
               ranking[i].time_difference_minutes >= ranking[1].time_difference_minutes
          /\ Len(alts) = Min(MaxAlternatives, n)
          /\ \A i \in 1..Len(alts) : alts[i] = ranking[i]
  /\ (/\ call.st = "validated"
      /\ slots = ExampleTable
      /\ call.intent = IntentData(Str(DrSmith), Str(Svc_medical), Iso(0), HHMM(10, 0))
      /\ WithinDateBounds(call.intent, call.now)) =>
       /\ call.response.validation_result = "valid_with_alternative"
       /\ call.response.validated_data.time_slot = HHMM(9, 0)
       /\ call.response.validated_data.available_spots = 2

\* 2:30 pm was requested from six slots with a free place, none of them at
\* 14:30: 14:00 is suggested and five alternatives are returned
C10_Witness ==
  /\ call.st = "validated"
  /\ call.response.validation_result = "valid_with_alternative"
  /\ Cardinality({ k \in 1..Len(slots[0]) : FreePlaces(slots[0][k]) > 0 }) >= 6
  /\ Len(call.response.alternative_slots) = MaxAlternatives
  /\ call.intent.time_slot = AmPm(2, 30, "pm")
  /\ call.response.validated_data.time_slot = HHMM(14, 0)

\* the example of C10 occurs
C10_ExampleReached ==
  /\ call.st = "validated"
  /\ slots = ExampleTable
  /\ call.intent = IntentData(Str(DrSmith), Str(Svc_medical), Iso(0), HHMM(10, 0))
  /\ WithinDateBounds(call.intent, call.now)
  /\ call.response.validated_data.time_slot = HHMM(9, 0)

(***************************************************************************)
(* Missing fields                                                          *)
(***************************************************************************)
\* a text field that is None, empty, or made of spaces only
AbsentText(v) == v.isNone \/ \A i \in 1..Len(v.s) : v.s[i] = " "

\* a date or time string that is None, empty, or made of spaces only
AbsentToken(v) == v.form = "none" \/ v.form = "empty" \/ v.form = "blank"

Absent(intent_data, field) ==
  \/ field = "provider_name" /\ AbsentText(intent_data.provider_name)
  \/ field = "service_type" /\ AbsentText(intent_data.service_type)
  \/ field = "date" /\ AbsentToken(intent_data.date)
  \/ field = "time_slot" /\ AbsentToken(intent_data.time_slot)

AbsentFields(intent_data) ==
  { f \in {"provider_name", "service_type", "date", "time_slot"} : Absent(intent_data, f) }

\* C11: a request with at least one of the four fields missing, empty or
\* blank is answered MISSING_REQUIRED_DATA with return_error, no payload, no
\* alternatives and exactly one prompt per missing field (the time-slot
\* prompt when time_slot is missing), whatever the other fields hold and
\* whatever the slot table holds
C11_MissingFieldsAnsweredFirst ==
  (call.st = "validated" /\ AbsentFields(call.intent) # {}) =>
    LET r == call.response
        missing == AbsentFields(call.intent)
    IN /\ ~r.is_valid
       /\ r.validation_result = "missing_required_data"
       /\ r.next_action = "return_error"
       /\ r.error_message = "missing"
       /\ r.validated_data = NoData
       /\ r.alternative_slots = << >>
       /\ Len(r.suggestions) = Cardinality(missing)
       /\ \A f \in missing : \E i \in 1..Len(r.suggestions) : r.suggestions[i] = f
       /\ \A i, j \in 1..Len(r.suggestions) : r.suggestions[i] = r.suggestions[j] => i = j

\* a blank provider and a missing time slot, with a service that does not
\* exist and a date that does not parse: two prompts, the second the time-slot one
C11_Witness ==
  /\ call.st = "validated"
  /\ call.intent.provider_name = Str(<<" ", " ">>)
  /\ call.intent.service_type = Str(<<"f","i","t","n","e","s","s">>)
  /\ call.intent.date = BadDate
  /\ call.intent.time_slot = EmptyTime
  /\ call.response.validation_result = "missing_required_data"
  /\ call.response.suggestions = << "provider_name", "time_slot" >>

(***************************************************************************)
(* Provider                                                                *)
(***************************************************************************)
KnownServiceTypes == { Svc_medical, Svc_dental, Svc_beauty, Svc_automotive, Svc_legal }

\* one name contains the other, letter case aside
NamesAgree(a, b) ==
  IsSubstring(Lower(a), Lower(b)) \/ IsSubstring(Lower(b), Lower(a))

CatalogHas(service_type, provider_name) ==
  /\ service_type \in KnownServiceTypes
  /\ \E i \in 1..Len(MOCK_PROVIDERS[service_type]) :
       NamesAgree(provider_name, MOCK_PROVIDERS[service_type][i])

\* C12: a complete request is answered INVALID_PROVIDER, with return_error
\* and no payload, exactly when its service type is not a known one or no
\* catalog provider of that service matches the requested name by
\* case-insensitive containment in either direction, whatever its date and
\* time are; otherwise the provider step passes
C12_InvalidProviderBeforeDateAndTime ==
  (call.st = "validated" /\ AbsentFields(call.intent) = {}) =>
    LET r == call.response
        known == CatalogHas(call.intent.service_type.s, call.intent.provider_name.s)
    IN /\ (r.validation_result = "invalid_provider") <=> ~known
       /\ ~known => /\ ~r.is_valid
                    /\ r.next_action = "return_error"
                    /\ r.validated_data = NoData
                    /\ r.alternative_slots = << >>
                    /\ r.error_message =
                         IF call.intent.service_type.s \in KnownServiceTypes
                         THEN "provider_not_found" ELSE "unknown_service"

\* an unknown provider of a known service, asked for a date that does not parse
C12_Witness ==
  /\ call.st = "validated"
  /\ call.intent.provider_name = Str(<<"Z","e","d">>)
  /\ call.intent.service_type = Str(Svc_medical)
  /\ call.intent.date = BadDate
  /\ call.intent.time_slot = Junk
  /\ call.response.validation_result = "invalid_provider"
  /\ call.response.next_action = "return_error"

\* a name that contains a catalog name, in other letter case, passes the provider step
C12_LongerNamePasses ==
  /\ call.st = "validated"
  /\ call.intent.provider_name = Str(DrSmith \o <<" ","J","r">>)
  /\ call.response.validation_result = "valid_with_alternative"

(***************************************************************************)
(* Date bounds                                                             *)
(***************************************************************************)
CompleteAndCataloged(intent_data) ==
  /\ AbsentFields(intent_data) = {}
  /\ CatalogHas(intent_data.service_type.s, intent_data.provider_name.s)

BeforeToday(date, now) == date.day < now.day

\* midnight of the date is more than 90 days after the clock reading
SecondsAhead(date, now) == (date.day - now.day) * SecondsPerDay - now.tod

BeyondHorizon(date, now) == SecondsAhead(date, now) > MaxFutureDays * SecondsPerDay

\* the date step refused the request: no payload, no alternatives
DateRejected(response) ==
  /\ ~response.is_valid
  /\ response.next_action = "return_error"
  /\ response.validated_data = NoData
  /\ response.alternative_slots = << >>
  /\ response.error_message \in {"past", "too_far", "bad_format"}

\* the answer is one the slot step gives after the date checks
SlotStepAnswered(response) ==
  response.error_message \in {"", "not_available", "no_slots", "fully_booked"}

OutsideBounds(date, now) ==
  DateParses(date) /\ (BeforeToday(date, now) \/ BeyondHorizon(date, now))

\* C13 as stated: for a complete request with a valid provider, the date is
\* rejected (is_valid false, return_error, no payload) exactly when it is
\* before today or more than 90 days after now
C13_Original ==
  (call.st = "validated" /\ CompleteAndCataloged(call.intent)) =>
    (DateRejected(call.response) <=> OutsideBounds(call.intent.date, call.now))

\* C13 amended: for a complete request with a valid provider, the date is
\* rejected (is_valid false, return_error, no payload) exactly when it does
\* not parse as YYYY-MM-DD, is before today, or is more than 90 days after
\* now, whatever the slot table holds for it; today's date and a date at most
\* 90 days ahead pass to the slot step
C13_DateRejectedOutsideBounds ==
  (call.st = "validated" /\ CompleteAndCataloged(call.intent)) =>
    LET date == call.intent.date
        refused == ~DateParses(date) \/ OutsideBounds(date, call.now)
    IN /\ refused <=> DateRejected(call.response)
       /\ ~refused <=> SlotStepAnswered(call.response)
       /\ call.response.error_message = "past" <=>
            (DateParses(date) /\ BeforeToday(date, call.now))
       /\ call.response.error_message = "bad_format" <=> ~DateParses(date)

\* a date 90 days and one second ahead is rejected although its 09:00 slot is free
C13_Witness ==
  /\ call.st = "validated"
  /\ CompleteAndCataloged(call.intent)
  /\ call.intent.date = Iso(0) /\ call.now = Clock(-91, 86399)
  /\ call.intent.time_slot = HHMM(9, 0)
  /\ AvailableAt(slots, Iso(0), HHMM(9, 0)) > 0
  /\ DateRejected(call.response) /\ call.response.error_message = "too_far"

\* a date exactly 90 days ahead, and today's date, pass
C13_BoundaryPasses ==
  /\ call.st = "validated"
  /\ CompleteAndCataloged(call.intent)
  /\ call.intent.date = Iso(0) /\ call.now \in {Clock(-90, 0), Clock(0, 43230)}
  /\ call.response.validation_result = "valid"

(***************************************************************************)
(* The clock                                                               *)
(***************************************************************************)
\* the answer without the booking reference, which is made of the clock reading
Unreferenced(response) == [response EXCEPT !.validated_data.booking_reference = 0]

SameAnswer(r1, r2) ==
  /\ r1.validation_result = r2.validation_result
  /\ r1.validated_data.time_slot = r2.validated_data.time_slot
  /\ r1.validated_data.available_spots = r2.validated_data.available_spots
  /\ r1.alternative_slots = r2.alternative_slots

\* the date stands on the same side of both date bounds at the two clock readings
SameDateVerdict(date, n1, n2) ==
  /\ BeforeToday(date, n1) <=> BeforeToday(date, n2)
  /\ BeyondHorizon(date, n1) <=> BeyondHorizon(date, n2)

\* the two clock readings are of the same day and the same second of the minute
SameNoon(n1, n2) ==
  n1.day = n2.day /\ n1.tod % SecondsPerMinute = n2.tod % SecondsPerMinute

C14_RefusedLater ==
  /\ call.st = "revalidated"
  /\ call.earlier.response.is_valid
  /\ call.response.error_message = "past"

\* a time that does not normalize, asked the day before and again on the
\* day: another slot is suggested
C14_OtherSuggestionLater ==
  /\ call.st = "revalidated"
  /\ call.earlier.response.validation_result = "valid_with_alternative"
  /\ call.response.validation_result = "valid_with_alternative"
  /\ call.earlier.response.validated_data.time_slot # call.response.validated_data.time_slot

(***************************************************************************)
(* Time normalization                                                      *)
(***************************************************************************)
\* the string "HH:MM" of an hour and a minute, both written with two digits
TwoDigits(h, m) ==
  [form |-> "hm", word |-> "", h |-> h, hasMin |-> TRUE, m |-> m, period |-> "",
   padded |-> TRUE, deco |-> "plain"]

\* C15: whatever the letter case and the surrounding spaces, morning gives
\* 09:00, afternoon 14:00, evening 18:00 and noon 12:00; 'H[:MM] am' gives
\* (H mod 12):MM and 'H[:MM] pm' gives (H mod 12 + 12):MM for H in 1..12 and
\* MM in 00..59, the minute being 0 when it is not written; a bare H:MM gives
\* the same time with a two-digit hour
C15_NormalizedTimes ==
  call.st = "normalized" =>
    LET t == call.intent.time_slot
        r == call.normalized
    IN /\ (t.form = "word" /\ t.word = "morning") => r = TwoDigits(9, 0)
       /\ (t.form = "word" /\ t.word = "afternoon") => r = TwoDigits(14, 0)
       /\ (t.form = "word" /\ t.word = "evening") => r = TwoDigits(18, 0)
       /\ (t.form = "word" /\ t.word = "noon") => r = TwoDigits(12, 0)
       /\ (t.form = "ampm" /\ t.period = "am" /\ t.h \in ClockHours) =>
            r = TwoDigits(t.h % 12, IF t.hasMin THEN t.m ELSE 0)
       /\ (t.form = "ampm" /\ t.period = "pm" /\ t.h \in ClockHours) =>
            r = TwoDigits((t.h % 12) + 12, IF t.hasMin THEN t.m ELSE 0)
       /\ (t.form = "hm" /\ t.h \in DayHours) => r = TwoDigits(t.h, t.m)

\* "2:30 PM" was normalized to 14:30
C15_Witness ==
  /\ call.st = "normalized"
  /\ call.intent.time_slot = Upper(AmPm(2, 30, "pm"))
  /\ call.normalized = TwoDigits(14, 30)

\* " 12 AM " was normalized to 00:00, "12 pm" to 12:00, "9:05" to 09:05
C15_MidnightNoonAndBare ==
  /\ call.st = "normalized"
  /\ \/ call.intent.time_slot = UpperSpaced(AmPmHour(12, "am")) /\ call.normalized = TwoDigits(0, 0)
     \/ call.intent.time_slot = AmPmHour(12, "pm") /\ call.normalized = TwoDigits(12, 0)
     \/ call.intent.time_slot = HMM(9, 5) /\ call.normalized = TwoDigits(9, 5)

(***************************************************************************)
(* The fallback reference                                                  *)
(***************************************************************************)
\* the minutes between a time of day and 12:00 of the same day
MinutesToNoon(t) == AbsDiff(MinuteOfDay(t), FallbackHour * 60)

\* the requested time, normalized, does not combine with the date into an instant
NotCombinable(intent_data) ==
  DateParses(intent_data.date) /\ ~TimeParses(_normalize_time_slot(intent_data.time_slot))

\* C16: when the normalized requested time does not combine with the date
\* into an instant, each alternative's time_difference_minutes is the number
\* of minutes between the slot's time and 12:00 of the requested date, and
\* the first alternative is a slot closest to noon
C16_FallbackIsNoonOfDate ==
  (call.st = "ranked" /\ NotCombinable(call.intent)) =>
    LET r == call.ranking IN
    /\ \A i \in 1..Len(r) : r[i].time_difference_minutes = MinutesToNoon(r[i].time)
    /\ \A i \in 1..Len(r) : MinutesToNoon(r[1].time) <= MinutesToNoon(r[i].time)

\* asked on 2025-05-25 at 12:00:30 for 2025-05-26 with a time that does not
\* normalize, and 09:00 and 14:00 free: 09:00 is ranked first, 1259 minutes away
C16_RankedFromNoonOfToday ==
  /\ call.st = "ranked"
  /\ NotCombinable(call.intent)
  /\ call.now = Clock(-1, 43230) /\ call.intent.date = Iso(0)
  /\ Len(call.ranking) = 2
  /\ call.ranking[1].time = HHMM(9, 0) /\ call.ranking[1].time_difference_minutes = 1259
  /\ call.ranking[2].time = HHMM(14, 0) /\ call.ranking[2].time_difference_minutes = 1559

(***************************************************************************)
(* Ties                                                                    *)
(***************************************************************************)
\* the position at which the day's slots enumerate a time
EnumeratedAt(daySlots, t) == CHOOSE k \in 1..Len(daySlots) : daySlots[k].time = t

\* C17: two slots with a free place and the same time_difference_minutes
\* stand in the ranking in the order in which the slot store enumerates them,
\* so the slot suggested among equidistant candidates is the one enumerated
\* first: with 09:00 enumerated before 11:00, both free, and 10:00 requested
\* and not free, 09:00 is suggested
C17_TiesInEnumerationOrder ==
  /\ call.st = "ranked" =>
       \A i, j \in 1..Len(call.ranking) :
         (i < j /\ call.ranking[i].time_difference_minutes
                     = call.ranking[j].time_difference_minutes)
           => EnumeratedAt(slots[0], call.ranking[i].time)
                < EnumeratedAt(slots[0], call.ranking[j].time)
  /\ (call.st = "validated" /\ call.response.validation_result = "valid_with_alternative") =>
       LET daySlots == slots[call.intent.date.day]
           alts == call.response.alternative_slots
           suggested == call.response.validated_data.time_slot
       IN /\ alts[1].time = suggested
          /\ \A j \in 2..Len(alts) :
               alts[j].time_difference_minutes = alts[1].time_difference_minutes
                 => EnumeratedAt(daySlots, suggested) < EnumeratedAt(daySlots, alts[j].time)
          /\ (/\ call.intent.time_slot = HHMM(10, 0)
              /\ IndexOf(daySlots, HHMM(9, 0)) # 0 /\ IndexOf(daySlots, HHMM(11, 0)) # 0
              /\ IndexOf(daySlots, HHMM(9, 0)) < IndexOf(daySlots, HHMM(11, 0))
              /\ FreePlaces(daySlots[IndexOf(daySlots, HHMM(9, 0))]) > 0
              /\ FreePlaces(daySlots[IndexOf(daySlots, HHMM(11, 0))]) > 0)
               => suggested = HHMM(9, 0)

\* 10:00 was requested from the table that enumerates 09:00 before 11:00, both
\* free and both 60 minutes away: 09:00 is suggested and 11:00 comes second
C17_Witness ==
  /\ call.st = "validated"
  /\ slots = MOCK_TIME_SLOTS
  /\ call.intent.time_slot = HHMM(10, 0)
  /\ call.response.validation_result = "valid_with_alternative"
  /\ call.response.validated_data.time_slot = HHMM(9, 0)
  /\ call.response.alternative_slots[1].time_difference_minutes = 60
  /\ call.response.alternative_slots[2].time = HHMM(11, 0)
  /\ call.response.alternative_slots[2].time_difference_minutes = 60

\* from a slot set that enumerates 11:00 before 09:00, 11:00 is suggested
C17_OtherOrder ==
  /\ call.st = "validated"
  /\ call.intent.time_slot = HHMM(10, 0)
  /\ IndexOf(slots[0], HHMM(9, 0)) > IndexOf(slots[0], HHMM(11, 0))
  /\ IndexOf(slots[0], HHMM(11, 0)) # 0
  /\ FreePlaces(slots[0][IndexOf(slots[0], HHMM(9, 0))]) > 0
  /\ call.response.validation_result = "valid_with_alternative"
  /\ call.response.validated_data.time_slot = HHMM(11, 0)

(***************************************************************************)
(* From validation to commit                                               *)
(***************************************************************************)
\* the last validation told its caller to book, and its answer is still held
ToldToBook == call.st = "validated" /\ call.response.next_action = "proceed_to_booking"

\* the call of client c is for the date and time_slot of the validated payload
BooksValidated(c) ==
  /\ book[c].date = call.response.validated_data.date
  /\ book[c].time_slot = call.response.validated_data.time_slot

\* C18: after validate_intent returned proceed_to_booking with a payload
\* (date, time_slot), a book_slot call for that date and time_slot finds the
\* slot, succeeds when no place of the slot was taken since the validation,
\* and fails with the capacity error only when the places the validation saw
\* were all taken by other commits in between
C18_ValidatedSlotCanBeBooked ==
  [][\A c \in Clients :
       (ToldToBook /\ Commits(c) /\ BooksValidated(c)) =>
         LET payload == call.response.validated_data
             left == AvailableAt(slots, payload.date, payload.time_slot)
         IN /\ payload.available_spots > 0
            /\ SlotExists(slots, payload.date, payload.time_slot)
            /\ book'[c].result.success \/ book'[c].result.message = "No capacity available"
            /\ left = payload.available_spots => book'[c].result.success
            /\ ~book'[c].result.success =>
                 /\ left = 0
                 /\ taken[payload.date.day][IndexOf(slots[payload.date.day], payload.time_slot)]
                      >= payload.available_spots]_vars

\* 16:00 was validated with its one place free, and the call that followed took it
C18_Witness ==
  /\ ToldToBook
  /\ call.response.validated_data.time_slot = HHMM(16, 0)
  /\ call.response.validated_data.available_spots = 1
  /\ AvailableAt(slots, Iso(0), HHMM(16, 0)) = 0
  /\ \E c \in Clients : Succeeded(c) /\ BooksValidated(c) /\ book[c].seen = 1
  /\ \A c \in Clients : ~(CapacityError(c) /\ BooksValidated(c))

\* 16:00 was validated with its one place free; another call took the place
\* and the call for the validated slot was refused for capacity
C18_LostTheLastPlace ==
  /\ ToldToBook
  /\ call.response.validated_data.time_slot = HHMM(16, 0)
  /\ call.response.validated_data.available_spots = 1
  /\ \E c1, c2 \in Clients :
       /\ Succeeded(c1) /\ BooksValidated(c1)
       /\ CapacityError(c2) /\ BooksValidated(c2)

(***************************************************************************)
(* Full slots                                                              *)
(***************************************************************************)
Full(slot_info) == slot_info.capacity - slot_info.booked = 0

\* the times an answer of validate_intent names: the validated one and the alternatives
TimesReturned(response) ==
  (IF response.validated_data.present THEN { response.validated_data.time_slot } ELSE {})
  \cup { response.alternative_slots[i].time : i \in 1..Len(response.alternative_slots) }

\* C19: the booked count of a slot never decreases and a full slot stays
\* full; a book_slot call on a full slot fails with the capacity error, no
\* validate_intent returns a full slot as the validated slot or among the
\* alternatives, and the successful book_slot calls on a slot number at most
\* its capacity minus its initial booked count
C19_FullStaysFull ==
  [][/\ \A d \in DOMAIN slots : \A i \in 1..Len(slots[d]) :
          /\ slots'[d][i].booked >= slots[d][i].booked
          /\ Full(slots[d][i]) => Full(slots'[d][i])
          /\ taken'[d][i] <= MOCK_TIME_SLOTS[d][i].capacity - MOCK_TIME_SLOTS[d][i].booked
     /\ \A c \in Clients :
          (/\ Commits(c)
           /\ SlotExists(slots, book[c].date, book[c].time_slot)
           /\ Full(slots[book[c].date.day][IndexOf(slots[book[c].date.day], book[c].time_slot)]))
            => /\ ~book'[c].result.success
               /\ book'[c].result.message = "No capacity available"
     /\ (call.st = "none" /\ call'.st = "validated") =>
          \A t \in TimesReturned(call'.response) :
            /\ SlotExists(slots, call'.intent.date, t)
            /\ ~Full(slots[call'.intent.date.day][IndexOf(slots[call'.intent.date.day], t)])]_vars

\* 16:00 took its one booking and is full: a later call on it was refused for
\* capacity, and a validation asking for it was answered with another slot
C19_Witness ==
  /\ Full(slots[0][6]) /\ taken[0][6] = 1
  /\ \E c \in Clients : CapacityError(c) /\ book[c].date = Iso(0) /\ book[c].time_slot = HHMM(16, 0)
  /\ call.st = "validated"
  /\ call.intent.time_slot = HHMM(16, 0)
  /\ call.response.validation_result = "valid_with_alternative"
  /\ HHMM(16, 0) \notin TimesReturned(call.response)

====
